---- MODULE Spec2Model ----
(***************************************************************************)
(* A model of the DipCoin perpetual-trading client SDK: the DipCoinPerpSDK *)
(* facade (placeOrder, cancelOrder, getAccountInfo, getPositions,          *)
(* getOpenOrders) and the HttpClient it sends its requests through.        *)
(*                                                                         *)
(* Every call of a public operation runs in a call slot.  One action is    *)
(* the code that runs between two suspension points (await) of the async   *)
(* operation: Start runs from the call to the first await, a Resolve       *)
(* action resumes the call with the outcome of the awaited promise and     *)
(* runs it to its next await or to its return.                             *)
(*                                                                         *)
(* Encoding of JavaScript values:                                          *)
(*   - an optional string is a string, Undef when it is undefined;         *)
(*   - an optional decimal (number | string) is an integer: Undefined when *)
(*     it is undefined, EmptyStr for "", 0 for the number 0, and n > 0 for *)
(*     the decimal n;                                                      *)
(*   - a field of the URL-encoded form is a string, Absent when postForm   *)
(*     leaves it out.                                                      *)
(***************************************************************************)
EXTENDS Integers, Sequences, FiniteSets, TLC

\* ------------------------------------------------------------------ bounds

\* The wall clock reads ClockEpoch - MaxSkew .. ClockEpoch + MaxTicks.
MaxTicks == 2
MaxSkew == 1
\* The call slots of one SDK instance.
NumCalls == 2
\* The calls of setAuthToken in a run.
MaxTokenSets == 2

\* ------------------------------------------------------- JavaScript values

Undef == "undefined"
Absent == "<absent>"
Undefined == -1
EmptyStr == -2

\* JavaScript truthiness of an optional decimal: undefined, "" and 0 are falsy.
Truthy(v) == v > 0
\* JavaScript truthiness of an optional string.
TruthyStr(s) == s # Undef /\ s # ""
\* a || b on optional decimals.
OrElse(a, b) == IF Truthy(a) THEN a ELSE b
\* a || b on optional strings.
OrElseStr(a, b) == IF TruthyStr(a) THEN a ELSE b
\* A destructuring default: it replaces undefined only.
WithDefault(v, d) == IF v = Undefined THEN d ELSE v
WithDefaultStr(s, d) == IF s = Undef THEN d ELSE s

\* OrderType and OrderSide.
MARKET == "MARKET"
LIMIT == "LIMIT"
BUY == "BUY"
SELL == "SELL"

\* API_ENDPOINTS, by the operation that uses them.
PLACE_ORDER == "PLACE_ORDER"
CANCEL_ORDER == "CANCEL_ORDER"
GET_ACCOUNT_INFO == "GET_ACCOUNT_INFO"
GET_POSITIONS == "GET_POSITIONS"
GET_OPEN_ORDERS == "GET_OPEN_ORDERS"

\* The address the constructor derives from the key pair.
WalletAddress == "0xwallet"

\* -------------------------------------------------------- numeric helpers

\* The fixed power of ten of the fixed-point scaling (a stand-in for 10^18,
\* which no TLC integer holds).
WeiFactor == 1000

\* formatNormalToWeiBN: the decimal scaled to its fixed-point integer.
formatNormalToWeiBN(v) == v * WeiFactor

\* formatNormalToWei: the same, as a decimal string.
formatNormalToWei(v) == ToString(formatNormalToWeiBN(v))

\* new BigNumber(0)
ZeroBN == 0

\* The first reading of the wall clock that the model makes.
ClockEpoch == 100
ClockRange == (ClockEpoch - MaxSkew)..(ClockEpoch + MaxTicks)
\* What the wall clock can do between two readings in one synchronous run:
\* stand still, advance, or be set back.
ClockSteps == {-1, 0, 1}

\* ------------------------------------------------------------ order intents

\* PlaceOrderParams with only the required fields of a MARKET buy.
BaseIntent ==
  [op |-> "placeOrder", symbol |-> "BTC-PERP", side |-> BUY, orderType |-> MARKET,
   quantity |-> 1, price |-> Undefined, leverage |-> 10, market |-> "0xabc",
   reduceOnly |-> Undef, clientId |-> Undef,
   tpTriggerPrice |-> Undefined, tpOrderType |-> Undef, tpOrderPrice |-> Undefined,
   slTriggerPrice |-> Undefined, slOrderType |-> Undef, slOrderPrice |-> Undefined]

\* Order type and price of the intents that pass validation.
TypeAndPrice == {<<MARKET, Undefined>>, <<MARKET, 150>>, <<LIMIT, 150>>}

\* <<trigger price, order type, order price>> of a take-profit specification.
TpConfigs ==
  {<<Undefined, Undef, Undefined>>, <<Undefined, LIMIT, 210>>,
   <<200, Undef, Undefined>>, <<200, MARKET, 210>>,
   <<200, LIMIT, Undefined>>, <<200, LIMIT, 210>>}

\* <<trigger price, order type, order price>> of a stop-loss specification.
SlConfigs ==
  {<<Undefined, Undef, Undefined>>, <<Undefined, LIMIT, 90>>,
   <<100, Undef, Undefined>>, <<100, MARKET, 90>>,
   <<100, LIMIT, Undefined>>, <<100, LIMIT, 90>>}

\* Intents without companion legs: every side, order type, reduceOnly and market.
MainIntents ==
  {[BaseIntent EXCEPT !.side = s, !.orderType = tp[1], !.price = tp[2],
                      !.reduceOnly = r, !.market = m, !.clientId = k] :
     s \in {BUY, SELL}, tp \in TypeAndPrice, r \in {Undef, "true", "false"},
     m \in {Undef, "0xabc"}, k \in {Undef, "c1"}}

\* Intents with every take-profit and stop-loss specification.
LegIntents ==
  {[BaseIntent EXCEPT !.side = s, !.orderType = tp[1], !.price = tp[2],
                      !.reduceOnly = r,
                      !.tpTriggerPrice = t[1], !.tpOrderType = t[2], !.tpOrderPrice = t[3],
                      !.slTriggerPrice = l[1], !.slOrderType = l[2], !.slOrderPrice = l[3]] :
     s \in {BUY, SELL}, tp \in {<<MARKET, Undefined>>, <<LIMIT, 150>>},
     r \in {Undef, "true"}, t \in TpConfigs, l \in SlConfigs}

\* An intent with both companion legs, each with a LIMIT order price.
FullIntent ==
  [BaseIntent EXCEPT !.tpTriggerPrice = 200, !.tpOrderType = LIMIT, !.tpOrderPrice = 210,
                     !.slTriggerPrice = 100, !.slOrderType = LIMIT, !.slOrderPrice = 90]

\* Intents with a required field missing, empty or zero, and LIMIT intents
\* without a price, with and without companion legs.
InvalidIntents ==
  LET Broken(b) ==
        {[b EXCEPT !.symbol = Undef], [b EXCEPT !.symbol = ""],
         [b EXCEPT !.side = Undef], [b EXCEPT !.orderType = Undef],
         [b EXCEPT !.quantity = Undefined], [b EXCEPT !.quantity = 0],
         [b EXCEPT !.quantity = EmptyStr],
         [b EXCEPT !.leverage = Undefined], [b EXCEPT !.leverage = 0],
         [b EXCEPT !.orderType = LIMIT, !.price = Undefined],
         [b EXCEPT !.orderType = LIMIT, !.price = EmptyStr],
         [b EXCEPT !.orderType = LIMIT, !.price = 0],
         [b EXCEPT !.side = Undef, !.quantity = Undefined, !.orderType = LIMIT]}
  IN Broken(BaseIntent) \cup Broken(FullIntent)

\* Intents whose trigger prices are the number 0 or the empty string.
FalsyTriggerIntents ==
  {[BaseIntent EXCEPT !.tpTriggerPrice = t, !.tpOrderType = LIMIT, !.tpOrderPrice = 210,
                      !.slTriggerPrice = l, !.slOrderType = LIMIT, !.slOrderPrice = o] :
     t \in {0, EmptyStr, 200}, l \in {0, EmptyStr, 100}, o \in {0, EmptyStr, 90}}

PlaceIntents == MainIntents \cup LegIntents \cup FalsyTriggerIntents \cup InvalidIntents

\* ------------------------------------------------------------------ errors

\* new Error(message)
Error(message) == [name |-> "Error", message |-> message]

\* The TypeError of reading a property of undefined.
TypeError == [name |-> "TypeError", message |-> "Cannot read properties of undefined"]

\* formatError: the message of the error, or a fallback when it has none.
formatError(e) == IF e.message # "" THEN e.message ELSE "Unknown error"

\* --------------------------------------------------------------- results

NoData == [kind |-> "none"]
Pending == [outcome |-> "pending"]

\* return { status: true, data }
Success(data) == [outcome |-> "returned", status |-> TRUE, data |-> data, error |-> Absent]

\* return { status: false, error }
Failure(message) ==
  [outcome |-> "returned", status |-> FALSE, data |-> NoData, error |-> message]

\* An exception that leaves the operation: the promise of the call rejects.
Thrown(e) == [outcome |-> "threw", status |-> FALSE, data |-> NoData, error |-> e.message]

\* A catch block that handles the errors the code throws itself and lets a
\* TypeError through.
CatchRethrowsTypeError(e) == IF e.name = "TypeError" THEN Thrown(e) ELSE Failure(formatError(e))

\* catch (error) { return { status: false, error: formatError(error) } }
CatchResult(e) == Failure(formatError(e))

\* ---------------------------------------------------- placeOrder: building

\* A validation without the check of the price of a LIMIT order.
ValidateIgnoresPrice(p) ==
  IF \/ ~TruthyStr(p.symbol) \/ ~TruthyStr(p.side) \/ ~TruthyStr(p.orderType)
     \/ ~Truthy(p.quantity) \/ ~Truthy(p.leverage)
  THEN "Missing required order parameters"
  ELSE ""

\* The validation of placeOrder: the message of the error it throws, "" when
\* the intent passes.
ValidatePlace(p) ==
  IF \/ ~TruthyStr(p.symbol) \/ ~TruthyStr(p.side) \/ ~TruthyStr(p.orderType)
     \/ ~Truthy(p.quantity) \/ ~Truthy(p.leverage)
  THEN "Missing required order parameters"
  ELSE IF p.orderType = LIMIT /\ ~Truthy(p.price)
       THEN "Price is required for LIMIT orders"
       ELSE ""

\* The destructuring defaults of placeOrder.
ReduceOnlyOf(p) == IF p.reduceOnly = Undef THEN FALSE ELSE p.reduceOnly = "true"
ClientIdOf(p) == WithDefaultStr(p.clientId, "")
TpOrderTypeOf(p) == WithDefaultStr(p.tpOrderType, MARKET)
TpOrderPriceOf(p) == WithDefault(p.tpOrderPrice, EmptyStr)
SlOrderTypeOf(p) == WithDefaultStr(p.slOrderType, MARKET)
SlOrderPriceOf(p) == WithDefault(p.slOrderPrice, EmptyStr)

\* tpOrder = null, slOrder = null
Null == [null |-> TRUE]

\* const priceBN = price ? formatNormalToWeiBN(price) : new BigNumber(0)
PriceBN(p) == IF Truthy(p.price) THEN formatNormalToWeiBN(p.price) ELSE ZeroBN

\* A main order that keeps the price of the intent whatever the order type.
MainOrderKeepsPrice(p, t) ==
  [market |-> OrElseStr(p.market, p.symbol),
   creator |-> WalletAddress,
   isLong |-> (p.side = BUY),
   reduceOnly |-> ReduceOnlyOf(p),
   postOnly |-> FALSE,
   orderbookOnly |-> TRUE,
   ioc |-> FALSE,
   quantity |-> formatNormalToWeiBN(p.quantity),
   price |-> PriceBN(p),
   leverage |-> formatNormalToWeiBN(p.leverage),
   expiration |-> ZeroBN,
   salt |-> t]

\* The main order object, with the salt read from the clock at t.
MainOrder(p, t) ==
  [market |-> OrElseStr(p.market, p.symbol),
   creator |-> WalletAddress,
   isLong |-> (p.side = BUY),
   reduceOnly |-> ReduceOnlyOf(p),
   postOnly |-> FALSE,
   orderbookOnly |-> TRUE,
   ioc |-> FALSE,
   quantity |-> formatNormalToWeiBN(p.quantity),
   price |-> IF p.orderType = LIMIT THEN PriceBN(p) ELSE ZeroBN,
   leverage |-> formatNormalToWeiBN(p.leverage),
   expiration |-> ZeroBN,
   salt |-> t]

\* A take-profit salt far from every reading of the clock.
TpSaltOfFarOffset(t) == t + 1000

\* tpSalt = new BigNumber(Date.now() + 1), the clock reading t
TpSaltOf(t) == t + 1

\* slSalt = new BigNumber(Date.now() + 2), the clock reading t
SlSaltOf(t) == t + 2

\* A leg price that is always computed from the trigger price.
LegPriceFromTrigger(orderType, orderPrice, triggerPrice) ==
  IF orderType = LIMIT THEN formatNormalToWeiBN(triggerPrice) ELSE ZeroBN

\* The price of a companion leg.
LegPrice(orderType, orderPrice, triggerPrice) ==
  IF orderType = LIMIT
  THEN formatNormalToWeiBN(OrElse(orderPrice, triggerPrice))
  ELSE ZeroBN

\* A companion leg that copies the reduceOnly flag of the main order.
CompanionLegCopiesReduceOnly(order, p, price, salt) ==
  [market |-> order.market,
   creator |-> WalletAddress,
   isLong |-> ~order.isLong,
   reduceOnly |-> order.reduceOnly,
   postOnly |-> FALSE,
   orderbookOnly |-> TRUE,
   ioc |-> FALSE,
   quantity |-> formatNormalToWeiBN(p.quantity),
   price |-> price,
   leverage |-> formatNormalToWeiBN(p.leverage),
   expiration |-> ZeroBN,
   salt |-> salt]

\* A companion leg of the main order.
CompanionLeg(order, p, price, salt) ==
  [market |-> order.market,
   creator |-> WalletAddress,
   isLong |-> ~order.isLong,
   reduceOnly |-> TRUE,
   postOnly |-> FALSE,
   orderbookOnly |-> TRUE,
   ioc |-> FALSE,
   quantity |-> formatNormalToWeiBN(p.quantity),
   price |-> price,
   leverage |-> formatNormalToWeiBN(p.leverage),
   expiration |-> ZeroBN,
   salt |-> salt]

\* Whether the take-profit leg is built: if (tpTriggerPrice)
BuildsTp(p) == Truthy(p.tpTriggerPrice)

\* Whether the stop-loss leg is built: if (slTriggerPrice)
BuildsSl(p) == Truthy(p.slTriggerPrice)

\* The take-profit leg, with the clock read at t.
TpOrder(p, order, t) ==
  IF BuildsTp(p)
  THEN CompanionLeg(order, p,
                    LegPrice(TpOrderTypeOf(p), TpOrderPriceOf(p), p.tpTriggerPrice),
                    TpSaltOf(t))
  ELSE Null

\* The stop-loss leg, with the clock read at t.
SlOrder(p, order, t) ==
  IF BuildsSl(p)
  THEN CompanionLeg(order, p,
                    LegPrice(SlOrderTypeOf(p), SlOrderPriceOf(p), p.slTriggerPrice),
                    SlSaltOf(t))
  ELSE Null

\* ----------------------------------------------------- placeOrder: signing

\* OrderSigner.getOrderMessageForUIWallet and TextEncoder.encode: the bytes
\* that stand for the order.
OrderMessage(order) == [orderMessage |-> order]

\* signMessage: the signature of the key pair on the bytes.
Signature(bytes) == [signer |-> WalletAddress, signed |-> bytes]

\* let tpOrderSignature: string | undefined
UndefSig == [undefinedSignature |-> TRUE]

\* The error of a signing primitive that rejects the bytes.
SigningError == Error("signing failed")

\* The local variables of a placeOrder call once its legs are built from the
\* clock readings t1, t2 and t3. The field clock is no variable of the code: it
\* keeps the readings (t2 and t3 repeat the reading before them when the leg
\* that reads the clock is not built).
PlaceLocals(p, t1, t2, t3) ==
  LET order == MainOrder(p, t1)
      tp == TpOrder(p, order, t2)
      sl == SlOrder(p, order, t3)
  IN [clock |-> <<t1, t2, t3>>,
      order |-> order,
      tpOrder |-> tp, tpSalt |-> IF tp = Null THEN Undefined ELSE tp.salt,
      slOrder |-> sl, slSalt |-> IF sl = Null THEN Undefined ELSE sl.salt,
      orderSignature |-> UndefSig,
      tpOrderSignature |-> UndefSig,
      slOrderSignature |-> UndefSig]

NoLocals == [none |-> TRUE]

\* ------------------------------------------------------- the wire payload

\* A list value, and the JSON text of a value.
ListOf(items) == [kind |-> "list", items |-> items]
JsonStringify(v) == [json |-> v]

\* reduceOnly.toString()
BoolToString(b) == IF b THEN "true" ELSE "false"

\* Whether the take-profit fields are added: if (tpTriggerPrice && tpOrderSignature)
AddsTp(p, l) == Truthy(p.tpTriggerPrice) /\ l.tpOrderSignature # UndefSig

\* The stop-loss fields added on the take-profit signature.
AddsSlOnTpSignature(p, l) == Truthy(p.slTriggerPrice) /\ l.tpOrderSignature # UndefSig

\* Whether the stop-loss fields are added: if (slTriggerPrice && slOrderSignature)
AddsSl(p, l) == Truthy(p.slTriggerPrice) /\ l.slOrderSignature # UndefSig

\* A wire price of a companion leg taken from the trigger price alone.
WireLegPriceFromTrigger(orderType, orderPrice, triggerPrice) ==
  IF orderType = LIMIT THEN formatNormalToWei(triggerPrice) ELSE ""

\* The wire price of a companion leg.
WireLegPrice(orderType, orderPrice, triggerPrice) ==
  IF orderType = LIMIT THEN formatNormalToWei(OrElse(orderPrice, triggerPrice)) ELSE ""

\* requestParams of placeOrder, from the intent p and the locals l of the call.
\* A key that is never assigned, or is undefined, is Absent (UndefSig for a
\* signature): postForm sends no field for it.
PlaceRequestParams(p, l) ==
  [symbol |-> p.symbol,
   side |-> p.side,
   orderType |-> p.orderType,
   quantity |-> formatNormalToWei(p.quantity),
   price |-> IF p.orderType = LIMIT /\ Truthy(p.price)
             THEN formatNormalToWei(p.price) ELSE "",
   leverage |-> formatNormalToWei(p.leverage),
   salt |-> ToString(l.order.salt),
   creator |-> WalletAddress,
   clientId |-> ClientIdOf(p),
   reduceOnly |-> BoolToString(ReduceOnlyOf(p)),
   orderSignature |-> l.orderSignature,
   tpOrderSignature |-> IF AddsTp(p, l) THEN l.tpOrderSignature ELSE UndefSig,
   tpTriggerPrice |-> IF AddsTp(p, l) THEN formatNormalToWei(p.tpTriggerPrice) ELSE Absent,
   tpOrderType |-> IF AddsTp(p, l) THEN TpOrderTypeOf(p) ELSE Absent,
   tpOrderPrice |-> IF AddsTp(p, l)
                    THEN WireLegPrice(TpOrderTypeOf(p), TpOrderPriceOf(p), p.tpTriggerPrice)
                    ELSE Absent,
   tpSalt |-> IF AddsTp(p, l) /\ l.tpSalt # Undefined THEN ToString(l.tpSalt) ELSE Absent,
   triggerWay |-> IF AddsTp(p, l) THEN "oracle" ELSE Absent,
   slOrderSignature |-> IF AddsSl(p, l) THEN l.slOrderSignature ELSE UndefSig,
   slTriggerPrice |-> IF AddsSl(p, l) THEN formatNormalToWei(p.slTriggerPrice) ELSE Absent,
   slOrderType |-> IF AddsSl(p, l) THEN SlOrderTypeOf(p) ELSE Absent,
   slOrderPrice |-> IF AddsSl(p, l)
                    THEN WireLegPrice(SlOrderTypeOf(p), SlOrderPriceOf(p), p.slTriggerPrice)
                    ELSE Absent,
   slSalt |-> IF AddsSl(p, l) /\ l.slSalt # Undefined THEN ToString(l.slSalt) ELSE Absent]

\* ------------------------------------------------------------- cancelOrder

\* CancelOrderParams: the identifier list is undefined (NoData) or a list.
CancelIntents ==
  {[op |-> "cancelOrder", symbol |-> "BTC-PERP", orderHashes |-> h, parentAddress |-> a] :
     h \in {NoData, ListOf(<<>>), ListOf(<<"h1">>), ListOf(<<"h1", "h2">>),
            ListOf(<<"h2", "h1">>)},
     a \in {Undef, "", "0xsub"}}

\* A validation that takes the empty list, which is truthy, for a list.
ValidateCancelAcceptsEmpty(p) ==
  IF p.orderHashes = NoData THEN "Order hashes are required" ELSE ""

\* The validation of cancelOrder: the message of the error it throws, "" when
\* the identifier list passes.
ValidateCancel(p) ==
  IF p.orderHashes = NoData \/ Len(p.orderHashes.items) = 0
  THEN "Order hashes are required"
  ELSE ""

\* parentAddress = this.walletAddress, the destructuring default
ParentAddressOf(p) == WithDefaultStr(p.parentAddress, WalletAddress)

\* A cancellation message that names the first identifier only.
CancelMessageOfFirstHash(p) ==
  JsonStringify([orderHashes |-> ListOf(<<Head(p.orderHashes.items)>>)])

\* The bytes of JSON.stringify({ orderHashes }).
CancelMessage(p) == JsonStringify([orderHashes |-> p.orderHashes])

\* The local variables of a cancelOrder call.
CancelLocals(p) == [cancelOrderObj |-> [orderHashes |-> p.orderHashes], signature |-> UndefSig]

\* requestParams of cancelOrder.
CancelRequestParams(p, l) ==
  [symbol |-> WithDefaultStr(p.symbol, Absent),
   orderHashes |-> JsonStringify(p.orderHashes),
   signature |-> l.signature,
   parentAddress |-> ParentAddressOf(p)]

\* ------------------------------------------------------------- the queries

\* getAccountInfo(), getPositions(symbol?), getOpenOrders(symbol?)
QueryIntents ==
  {[op |-> "getAccountInfo", symbol |-> Undef]}
  \cup {[op |-> o, symbol |-> s] :
          o \in {"getPositions", "getOpenOrders"}, s \in {Undef, "", "BTC-PERP"}}

\* const params = {}; if (symbol) params.symbol = symbol
QueryParams(p) == [symbol |-> IF TruthyStr(p.symbol) THEN p.symbol ELSE Absent]

\* ---------------------------------------------------------------- HttpClient

NoRequest == [none |-> TRUE]

\* The request interceptor: the headers it sets, with the auth token token.
RequestHeaders(token) ==
  [wallet |-> IF TruthyStr(WalletAddress) THEN WalletAddress ELSE Absent,
   authorization |-> IF TruthyStr(token) THEN "Bearer " \o token ELSE Absent]

\* HttpClient.postForm: the request it sends.
PostForm(url, data, token) ==
  [method |-> "POST", url |-> url,
   contentType |-> "application/x-www-form-urlencoded",
   body |-> data, headers |-> RequestHeaders(token)]

\* HttpClient.get: the request it sends.
Get(url, params, token) ==
  [method |-> "GET", url |-> url,
   contentType |-> "application/json",
   body |-> params, headers |-> RequestHeaders(token)]

\* A 2xx response without a body: response.data is undefined.
NoBody == [undefinedBody |-> TRUE]

\* The envelopes { code, data, message } a server sends with the data of datas.
Envelopes(datas) ==
  {[code |-> 200, message |-> m, data |-> d] : m \in {Undef, "success"}, d \in datas}
  \cup {[code |-> 404, message |-> m, data |-> d] :
          m \in {Undef, "", "not found"}, d \in datas}

\* The outcomes of a request that the transport rejects: a non-2xx response
\* with or without a message of the server, a network error, a timeout.
TransportFailures ==
  {[failed |-> TRUE, serverMessage |-> "not found", errorMessage |-> "status code 404"],
   [failed |-> TRUE, serverMessage |-> Undef, errorMessage |-> "timeout of 30000ms exceeded"],
   [failed |-> TRUE, serverMessage |-> Undef, errorMessage |-> ""]}

\* The response interceptor on a rejected request: the Error it rejects with.
ResponseError(f) ==
  Error(OrElseStr(f.serverMessage, OrElseStr(f.errorMessage, "Request failed")))

\* The data of the envelopes, by operation.
Ack == [kind |-> "ack"]
AccountDatas ==
  {NoData,
   [kind |-> "account", walletBalance |-> "5", totalUnrealizedProfit |-> "1",
    accountValue |-> "6", freeCollateral |-> "4", totalMargin |-> "2"],
   [kind |-> "account", walletBalance |-> "5", totalUnrealizedProfit |-> Undef,
    accountValue |-> "", freeCollateral |-> "4", totalMargin |-> Undef]}
Lists == {ListOf(<<>>), ListOf(<<"a">>), ListOf(<<"a", "b">>)}
\* A JSON object that is no list and has no data field, such as {rows: [...]}.
Page == [kind |-> "page"]
\* The data of a list query: missing, a list, an object without a data field,
\* or an object whose data field is missing, a list or another object.
ListDatas ==
  {NoData, Page} \cup Lists
  \cup {[kind |-> "wrapper", data |-> d] : d \in {NoData, Page} \cup Lists}

DatasOf(op) ==
  CASE op = "getAccountInfo" -> AccountDatas
    [] op \in {"getPositions", "getOpenOrders"} -> ListDatas
    [] OTHER -> {Ack}

\* What the awaited request of an operation resolves or rejects with.
ResponsesOf(op) ==
  TransportFailures
  \cup {[failed |-> FALSE, body |-> b] : b \in {NoBody} \cup Envelopes(DatasOf(op))}

\* -------------------------------------------------- handling the response

\* response.message || fallback
MessageOr(body, fallback) == OrElseStr(body.message, fallback)

\* A result that drops the message of the server.
OrderResultDropsMessage(body, fallback) ==
  IF body.code = 200 THEN Success(body) ELSE Failure(fallback)

\* placeOrder and cancelOrder on the envelope of the response.
OrderResult(body, fallback) ==
  IF body.code = 200 THEN Success(body) ELSE Failure(MessageOr(body, fallback))

\* getAccountInfo on the envelope of the response.
AccountResult(body) ==
  IF body.code = 200 /\ body.data # NoData
  THEN Success([kind |-> "account",
                walletBalance |-> OrElseStr(body.data.walletBalance, "0"),
                totalUnrealizedProfit |-> OrElseStr(body.data.totalUnrealizedProfit, "0"),
                accountValue |-> OrElseStr(body.data.accountValue, "0"),
                freeCollateral |-> OrElseStr(body.data.freeCollateral, "0"),
                totalMargin |-> OrElseStr(body.data.totalMargin, "0")])
  ELSE Failure(MessageOr(body, "Failed to get account info"))

\* Array.isArray(response.data) ? response.data : response.data?.data || []
\* (the inner data is returned whenever it is truthy, list or not).
FlatList(data) ==
  IF data.kind = "list" THEN data
  ELSE IF data.kind = "wrapper" /\ data.data # NoData THEN data.data
  ELSE ListOf(<<>>)

\* getPositions and getOpenOrders on the envelope of the response.
ListResult(body, fallback) ==
  IF body.code = 200 THEN Success(FlatList(body.data))
  ELSE Failure(MessageOr(body, fallback))

\* The result of an operation whose request resolved with the body body.
ResultOf(op, body) ==
  CASE op = "placeOrder" -> OrderResult(body, "Failed to place order")
    [] op = "cancelOrder" -> OrderResult(body, "Failed to cancel order")
    [] op = "getAccountInfo" -> AccountResult(body)
    [] op = "getPositions" -> ListResult(body, "Failed to get positions")
    [] op = "getOpenOrders" -> ListResult(body, "Failed to get open orders")

\* The code after the awaited request: a rejection and the TypeError of
\* reading response.code of an undefined body end in the catch block.
HandleResponse(op, r) ==
  IF r.failed THEN CatchResult(ResponseError(r))
  ELSE IF r.body = NoBody THEN CatchResult(TypeError)
  ELSE ResultOf(op, r.body)

\* ------------------------------------------------------------------- state

VARIABLES
  now,        \* the wall clock, in milliseconds
  authToken,  \* HttpClient.authToken
  tokensSet,  \* history: the tokens passed to setAuthToken, oldest first
  pc,         \* per call slot: where the call is suspended
  args,       \* per call slot: the parameters of the call
  loc,        \* per call slot: the local variables of the call
  req,        \* per call slot: the request the call has sent
  result,     \* per call slot: what the call returned
  resp,       \* per call slot: what the request of the call settled with
  signed,     \* per call slot: the messages signed in the call, in order
  sent        \* per call slot: the number of requests sent in the call

vars == <<now, authToken, tokensSet, pc, args, loc, req, resp, result, signed, sent>>

Calls == 1..NumCalls
\* The call slots of the sequential specification.
SeqCalls == {1}

NoArgs == [op |-> "none"]
NoResponse == [none |-> TRUE]
\* The strings passed to setAuthToken: the empty string and two tokens.
Tokens == {"", "jwt1", "jwt2"}

Init ==
  /\ now = ClockEpoch
  /\ authToken = Undef
  /\ tokensSet = <<>>
  /\ pc = [c \in Calls |-> "idle"]
  /\ args = [c \in Calls |-> NoArgs]
  /\ loc = [c \in Calls |-> NoLocals]
  /\ req = [c \in Calls |-> NoRequest]
  /\ resp = [c \in Calls |-> NoResponse]
  /\ result = [c \in Calls |-> Pending]
  /\ signed = [c \in Calls |-> <<>>]
  /\ sent = [c \in Calls |-> 0]

\* ----------------------------------------------------------------- actions

\* The call returns r without having reached an await.
Finish(c, p, r) ==
  /\ pc' = [pc EXCEPT ![c] = "done"]
  /\ args' = [args EXCEPT ![c] = p]
  /\ result' = [result EXCEPT ![c] = r]

\* A call that sends its request a second time.
SendAndResend(c, request) ==
  /\ req' = [req EXCEPT ![c] = request]
  /\ sent' = [sent EXCEPT ![c] = @ + 2]
  /\ pc' = [pc EXCEPT ![c] = "wait"]

\* A send through one request object that every call in flight shares.
SendThroughSharedRequest(c, request) ==
  /\ req' = [d \in Calls |-> IF d = c \/ pc[d] = "wait" THEN request ELSE req[d]]
  /\ sent' = [sent EXCEPT ![c] = @ + 1]
  /\ pc' = [pc EXCEPT ![c] = "wait"]

\* The call sends request and awaits its response.
Send(c, request) ==
  /\ req' = [req EXCEPT ![c] = request]
  /\ sent' = [sent EXCEPT ![c] = @ + 1]
  /\ pc' = [pc EXCEPT ![c] = "wait"]

\* placeOrder(p), to its first await: the validation, the legs with their
\* three readings of the clock, and the call of signMessage on the main order.
PlaceOrderReading(c, p, steps) ==
  /\ pc[c] = "idle"
  /\ IF ValidatePlace(p) # ""
     THEN /\ Finish(c, p, CatchResult(Error(ValidatePlace(p))))
          /\ UNCHANGED <<now, authToken, tokensSet, loc, req, resp, signed, sent>>
     ELSE \E d1, d2 \in steps :
            LET t1 == now
                t2 == IF BuildsTp(p) THEN t1 + d1 ELSE t1
                t3 == IF BuildsSl(p) THEN t2 + d2 ELSE t2
            IN /\ t2 \in ClockRange
               /\ t3 \in ClockRange
               /\ now' = t3
               /\ loc' = [loc EXCEPT ![c] = PlaceLocals(p, t1, t2, t3)]
               /\ args' = [args EXCEPT ![c] = p]
               /\ pc' = [pc EXCEPT ![c] = "signMain"]
               /\ UNCHANGED <<authToken, tokensSet, req, resp, result, signed, sent>>

\* placeOrder(p) on a wall clock that may step either way between its readings.
PlaceOrder(c, p) == PlaceOrderReading(c, p, ClockSteps)

\* A placeOrder that posts the form without signing the stop-loss leg.
AfterSigningSkipsSl(leg, l) ==
  IF leg = "main" /\ l.tpOrder # Null THEN "signTp" ELSE "wait"

\* The await that follows the signature of leg in placeOrder: the next leg to
\* sign, "wait" when the request is sent.
AfterSigning(leg, l) ==
  IF leg = "main" /\ l.tpOrder # Null THEN "signTp"
  ELSE IF leg \in {"main", "tp"} /\ l.slOrder # Null THEN "signSl"
  ELSE "wait"

\* The leg whose signature the call awaits, and the order it signs.
LegOf(stage) == CASE stage = "signMain" -> "main" [] stage = "signTp" -> "tp" [] stage = "signSl" -> "sl"
OrderOf(leg, l) == CASE leg = "main" -> l.order [] leg = "tp" -> l.tpOrder [] leg = "sl" -> l.slOrder

\* The locals with the signature sig of leg.
WithSignature(l, leg, sig) ==
  CASE leg = "main" -> [l EXCEPT !.orderSignature = sig]
    [] leg = "tp" -> [l EXCEPT !.tpOrderSignature = sig]
    [] leg = "sl" -> [l EXCEPT !.slOrderSignature = sig]

\* The awaited signMessage of placeOrder settles. Rejected, the call ends in
\* the catch block. Resolved, the call signs its next leg or, after the last
\* one, builds requestParams and posts the form.
PlaceSigned(c) ==
  /\ pc[c] \in {"signMain", "signTp", "signSl"}
  /\ \E ok \in BOOLEAN :
       LET leg == LegOf(pc[c])
           l == WithSignature(loc[c], leg, Signature(OrderMessage(OrderOf(leg, loc[c]))))
           next == AfterSigning(leg, l)
       IN IF ~ok
          THEN /\ pc' = [pc EXCEPT ![c] = "done"]
               /\ result' = [result EXCEPT ![c] = CatchResult(SigningError)]
               /\ UNCHANGED <<now, authToken, tokensSet, args, loc, req, resp, signed, sent>>
          ELSE /\ loc' = [loc EXCEPT ![c] = l]
               /\ signed' = [signed EXCEPT ![c] = Append(@, leg)]
               /\ IF next = "wait"
                  THEN Send(c, PostForm(PLACE_ORDER, PlaceRequestParams(args[c], l), authToken))
                  ELSE /\ pc' = [pc EXCEPT ![c] = next]
                       /\ UNCHANGED <<req, sent>>
               /\ UNCHANGED <<now, authToken, tokensSet, args, resp, result>>

\* cancelOrder(p), to its first await: the validation and the call of
\* signMessage on the cancellation message.
CancelOrder(c, p) ==
  /\ pc[c] = "idle"
  /\ IF ValidateCancel(p) # ""
     THEN /\ Finish(c, p, CatchResult(Error(ValidateCancel(p))))
          /\ UNCHANGED loc
     ELSE /\ loc' = [loc EXCEPT ![c] = CancelLocals(p)]
          /\ args' = [args EXCEPT ![c] = p]
          /\ pc' = [pc EXCEPT ![c] = "signCancel"]
          /\ UNCHANGED result
  /\ UNCHANGED <<now, authToken, tokensSet, req, resp, signed, sent>>

\* The awaited signMessage of cancelOrder settles.
CancelSigned(c) ==
  /\ pc[c] = "signCancel"
  /\ \E ok \in BOOLEAN :
       LET l == [loc[c] EXCEPT !.signature = Signature(CancelMessage(args[c]))]
       IN IF ~ok
          THEN /\ pc' = [pc EXCEPT ![c] = "done"]
               /\ result' = [result EXCEPT ![c] = CatchResult(SigningError)]
               /\ UNCHANGED <<loc, req, signed, sent>>
          ELSE /\ loc' = [loc EXCEPT ![c] = l]
               /\ signed' = [signed EXCEPT ![c] = Append(@, "cancel")]
               /\ Send(c, PostForm(CANCEL_ORDER, CancelRequestParams(args[c], l), authToken))
               /\ UNCHANGED result
  /\ UNCHANGED <<now, authToken, tokensSet, args, resp>>

\* The endpoint of a query.
EndpointOf(op) ==
  CASE op = "getAccountInfo" -> GET_ACCOUNT_INFO
    [] op = "getPositions" -> GET_POSITIONS
    [] op = "getOpenOrders" -> GET_OPEN_ORDERS

\* getAccountInfo(), getPositions(symbol) and getOpenOrders(symbol), to the
\* await of the request.
Query(c, p) ==
  /\ pc[c] = "idle"
  /\ args' = [args EXCEPT ![c] = p]
  /\ Send(c, Get(EndpointOf(p.op), QueryParams(p), authToken))
  /\ UNCHANGED <<now, authToken, tokensSet, loc, resp, result, signed>>

\* The awaited request settles with r, and the operation returns.
Respond(c, r) ==
  /\ pc[c] = "wait"
  /\ pc' = [pc EXCEPT ![c] = "done"]
  /\ resp' = [resp EXCEPT ![c] = r]
  /\ result' = [result EXCEPT ![c] = HandleResponse(args[c].op, r)]
  /\ UNCHANGED <<now, authToken, tokensSet, args, loc, req, signed, sent>>

\* The caller takes the result; the locals of the call are discarded.
Return(c) ==
  /\ pc[c] = "done"
  /\ pc' = [pc EXCEPT ![c] = "idle"]
  /\ args' = [args EXCEPT ![c] = NoArgs]
  /\ loc' = [loc EXCEPT ![c] = NoLocals]
  /\ req' = [req EXCEPT ![c] = NoRequest]
  /\ resp' = [resp EXCEPT ![c] = NoResponse]
  /\ result' = [result EXCEPT ![c] = Pending]
  /\ signed' = [signed EXCEPT ![c] = <<>>]
  /\ sent' = [sent EXCEPT ![c] = 0]
  /\ UNCHANGED <<now, authToken, tokensSet>>

\* A setAuthToken that keeps the token it already has.
SetAuthTokenKeepsFirst(token) ==
  /\ Len(tokensSet) < MaxTokenSets
  /\ authToken' = IF authToken = Undef THEN token ELSE authToken
  /\ tokensSet' = Append(tokensSet, token)
  /\ UNCHANGED <<now, pc, args, loc, req, resp, result, signed, sent>>

\* HttpClient.setAuthToken(token)
SetAuthToken(token) ==
  /\ Len(tokensSet) < MaxTokenSets
  /\ authToken' = token
  /\ tokensSet' = Append(tokensSet, token)
  /\ UNCHANGED <<now, pc, args, loc, req, resp, result, signed, sent>>

\* A millisecond passes while no call is running.
Tick ==
  /\ \A c \in Calls : pc[c] = "idle"
  /\ now < ClockEpoch + MaxTicks
  /\ now' = now + 1
  /\ UNCHANGED <<authToken, tokensSet, pc, args, loc, req, resp, result, signed, sent>>

\* One caller that awaits every call before it makes the next, on a client
\* whose auth token is never set.
Next ==
  \/ \E c \in SeqCalls, p \in PlaceIntents : PlaceOrder(c, p)
  \/ \E c \in SeqCalls : PlaceSigned(c)
  \/ \E c \in SeqCalls, p \in CancelIntents : CancelOrder(c, p)
  \/ \E c \in SeqCalls : CancelSigned(c)
  \/ \E c \in SeqCalls, p \in QueryIntents : Query(c, p)
  \/ \E c \in SeqCalls : \E r \in ResponsesOf(args[c].op) : Respond(c, r)
  \/ \E c \in SeqCalls : Return(c)
  \/ Tick

Spec == Init /\ [][Next]_vars

\* The transport client under calls of setAuthToken: one caller whose GET
\* requests (the queries) and form posts (cancelOrder) go through a client
\* whose token is set, and set again, at any moment, also while a request is
\* in flight.
NextAuth ==
  \/ \E token \in Tokens : SetAuthToken(token)
  \/ \E c \in SeqCalls, p \in QueryIntents : Query(c, p)
  \/ \E c \in SeqCalls, p \in CancelIntents : CancelOrder(c, p)
  \/ \E c \in SeqCalls : CancelSigned(c)
  \/ \E c \in SeqCalls : \E r \in ResponsesOf(args[c].op) : Respond(c, r)
  \/ \E c \in SeqCalls : Return(c)

SpecAuth == Init /\ [][NextAuth]_vars

\* Two calls in flight on one SDK instance: each call starts, signs and sends
\* while the other is suspended at any of its awaits.
ConcCalls == {1, 2}

\* The wall clock between two readings of a call that runs beside another:
\* it stands still or advances.
ConcClockSteps == {0, 1}

\* The intents of the concurrent calls: an order with both companion legs, a
\* bare MARKET sell, a cancellation and a list query.
ConcPlaceIntents == {FullIntent, [BaseIntent EXCEPT !.side = SELL]}
ConcCancelIntents ==
  {[op |-> "cancelOrder", symbol |-> "BTC-PERP", orderHashes |-> ListOf(<<"h1">>),
    parentAddress |-> Undef]}
ConcQueryIntents == {[op |-> "getPositions", symbol |-> Undef]}

\* What the request of a concurrent call settles with: a rejection with a
\* message of the server, or an envelope without a message whose data, for a
\* list query, is a list.
ConcResponses(op) ==
  {r \in ResponsesOf(op) :
     IF r.failed THEN r.serverMessage = "not found"
     ELSE /\ r.body # NoBody
          /\ r.body.message = Undef
          /\ r.body.data \in {Ack, ListOf(<<"a">>)}}

\* A millisecond passes, whatever the calls are doing.
Elapse ==
  /\ now < ClockEpoch + MaxTicks
  /\ now' = now + 1
  /\ UNCHANGED <<authToken, tokensSet, pc, args, loc, req, resp, result, signed, sent>>

NextConc ==
  \/ \E c \in ConcCalls, p \in ConcPlaceIntents : PlaceOrderReading(c, p, ConcClockSteps)
  \/ \E c \in ConcCalls : PlaceSigned(c)
  \/ \E c \in ConcCalls, p \in ConcCancelIntents : CancelOrder(c, p)
  \/ \E c \in ConcCalls : CancelSigned(c)
  \/ \E c \in ConcCalls, p \in ConcQueryIntents : Query(c, p)
  \/ \E c \in ConcCalls : \E r \in ConcResponses(args[c].op) : Respond(c, r)
  \/ \E c \in ConcCalls : Return(c)
  \/ Elapse

SpecConc == Init /\ [][NextConc]_vars

\* ------------------------------------------------------------------ claims

\* A decimal or a string of the intent that is missing: undefined, empty or zero.
MissingDecimal(v) == v \in {Undefined, EmptyStr, 0}
MissingString(v) == v \in {Undef, ""}

\* The call in slot c has returned a failure result.
ReturnedFailure(c) ==
  /\ pc[c] = "done"
  /\ result[c].outcome = "returned"
  /\ result[c].status = FALSE

\* C1: every call of a public operation that ends, ends by returning the
\* uniform result: status true with a payload and no error, or status false with
\* an error message and no payload. No call ends with an exception, whatever the
\* validation, the signing and the transport did.
C1_UniformResult ==
  \A c \in Calls :
    /\ pc[c] = "done" =>
         /\ result[c].outcome = "returned"
         /\ result[c].status \in BOOLEAN
         /\ result[c].status => result[c].data # NoData /\ result[c].error = Absent
         /\ ~result[c].status => result[c].data = NoData /\ ~MissingString(result[c].error)
                                 /\ result[c].error # Absent
    /\ pc[c] # "done" => result[c] = Pending

\* C1 witness: a placeOrder call whose take-profit signature was rejected after
\* the main order was signed has returned a failure result.
C1_Witness ==
  \E c \in Calls :
    /\ args[c].op = "placeOrder"
    /\ signed[c] = <<"main">>
    /\ loc[c].tpOrder # Null
    /\ ReturnedFailure(c)
    /\ result[c].error = "signing failed"

\* The intent misses a required field, or is a LIMIT intent without a price.
FailsValidation(p) ==
  \/ MissingString(p.symbol) \/ MissingString(p.side) \/ MissingString(p.orderType)
  \/ MissingDecimal(p.quantity) \/ MissingDecimal(p.leverage)
  \/ p.orderType = LIMIT /\ MissingDecimal(p.price)

\* C2: a placeOrder call whose intent misses symbol, side, order type, quantity
\* or leverage, or is a LIMIT intent without a price, has returned a failure
\* result, and in that call no leg was built or signed and no request was sent.
C2_ValidationFirst ==
  \A c \in Calls :
    args[c].op = "placeOrder" /\ FailsValidation(args[c]) =>
      /\ ReturnedFailure(c)
      /\ loc[c] = NoLocals
      /\ signed[c] = <<>>
      /\ sent[c] = 0
      /\ req[c] = NoRequest

\* C2 witness: a LIMIT intent without a price, with both companion legs asked
\* for, was rejected.
C2_Witness ==
  \E c \in Calls :
    /\ args[c] = [FullIntent EXCEPT !.orderType = LIMIT, !.price = Undefined]
    /\ ReturnedFailure(c)
    /\ result[c].error = "Price is required for LIMIT orders"

\* C3: a cancelOrder call whose identifier list is absent or empty has returned
\* a failure result, and in that call nothing was signed and no request was sent.
C3_CancelNeedsHashes ==
  \A c \in Calls :
    /\ args[c].op = "cancelOrder"
    /\ (args[c].orderHashes = NoData \/ args[c].orderHashes = ListOf(<<>>))
    => /\ ReturnedFailure(c)
       /\ loc[c] = NoLocals
       /\ signed[c] = <<>>
       /\ sent[c] = 0
       /\ req[c] = NoRequest

\* C3 witness: a cancelOrder call with the empty list was rejected.
C3_Witness ==
  \E c \in Calls :
    /\ args[c].op = "cancelOrder"
    /\ args[c].orderHashes = ListOf(<<>>)
    /\ ReturnedFailure(c)
    /\ result[c].error = "Order hashes are required"

\* The request of the call in slot c settled with an envelope of the server.
HasEnvelope(c) ==
  /\ pc[c] = "done"
  /\ resp[c] # NoResponse
  /\ ~resp[c].failed
  /\ resp[c].body # NoBody

\* The call in slot c returned a failure result whose error is the message of
\* the envelope body when it has one, and a non-empty text otherwise.
ServerFailure(c, body) ==
  /\ ReturnedFailure(c)
  /\ IF MissingString(body.message)
     THEN ~MissingString(result[c].error) /\ result[c].error # Absent
     ELSE result[c].error = body.message

\* C4 as claimed: for every operation an envelope with code 200 yields a
\* success result, and every other code a failure result with the message of
\* the server or a non-empty fallback.
C4_Code200IsSuccess ==
  \A c \in Calls :
    HasEnvelope(c) =>
      IF resp[c].body.code = 200
      THEN result[c].outcome = "returned" /\ result[c].status = TRUE
      ELSE ServerFailure(c, resp[c].body)

\* C4, amended: an envelope with code 200 yields a success result, except that
\* getAccountInfo needs the envelope to carry data as well; a code-200 envelope
\* without data to getAccountInfo, and every other code to every operation,
\* yields a failure result with the message of the server or a non-empty
\* fallback.
C4_EnvelopeMapping ==
  \A c \in Calls :
    HasEnvelope(c) =>
      IF /\ resp[c].body.code = 200
         /\ (args[c].op = "getAccountInfo" => resp[c].body.data # NoData)
      THEN result[c].outcome = "returned" /\ result[c].status = TRUE
      ELSE ServerFailure(c, resp[c].body)

\* C4 witness: the server answered getAccountInfo with code 404 and the message
\* "not found", and the call returned {status: false, error: "not found"}.
C4_Witness ==
  \E c \in Calls :
    /\ args[c].op = "getAccountInfo"
    /\ HasEnvelope(c)
    /\ resp[c].body.code = 404
    /\ resp[c].body.message = "not found"
    /\ result[c] = Failure("not found")

\* The legs of the placeOrder call in slot c are built.
LegsBuilt(c) == args[c].op = "placeOrder" /\ loc[c] # NoLocals

\* C5 as claimed: whenever the clock does not go back between the three
\* readings of a placeOrder call, the salt of the take-profit leg is the salt of
\* the main order plus 1 and the salt of the stop-loss leg is the salt of the
\* main order plus 2.
C5_SaltOffsets ==
  \A c \in Calls :
    /\ LegsBuilt(c)
    /\ loc[c].clock[1] <= loc[c].clock[2]
    /\ loc[c].clock[2] <= loc[c].clock[3]
    => /\ loc[c].tpOrder # Null => loc[c].tpOrder.salt = loc[c].order.salt + 1
       /\ loc[c].slOrder # Null => loc[c].slOrder.salt = loc[c].order.salt + 2

\* The salts of the legs built in slot c.
SaltsDistinct(c) ==
  /\ loc[c].tpOrder # Null => loc[c].tpOrder.salt # loc[c].order.salt
  /\ loc[c].slOrder # Null => loc[c].slOrder.salt # loc[c].order.salt
  /\ loc[c].tpOrder # Null /\ loc[c].slOrder # Null
       => loc[c].tpOrder.salt # loc[c].slOrder.salt

\* C6 as claimed: the salts of the legs built in one placeOrder call are
\* pairwise distinct, whatever the clock read at the three readings.
C6_SaltsDistinct == \A c \in Calls : LegsBuilt(c) => SaltsDistinct(c)

\* The part of C6 that the code keeps: the salts are pairwise distinct in every
\* call in which the clock did not go back between the readings.
SaltsDistinctOnMonotoneClock ==
  \A c \in Calls :
    /\ LegsBuilt(c)
    /\ loc[c].clock[1] <= loc[c].clock[2]
    /\ loc[c].clock[2] <= loc[c].clock[3]
    => SaltsDistinct(c)

\* C7: in every placeOrder call that builds its legs, the take-profit leg exists
\* exactly when a take-profit trigger price was supplied and the stop-loss leg
\* exactly when a stop-loss trigger price was supplied (a trigger price that is
\* undefined, empty or zero is not supplied); every companion leg is reduce-only
\* and on the side opposite to the main order, whatever the reduceOnly and side
\* of the intent.
C7_CompanionLegs ==
  \A c \in Calls :
    LegsBuilt(c) =>
      /\ loc[c].tpOrder # Null <=> ~MissingDecimal(args[c].tpTriggerPrice)
      /\ loc[c].slOrder # Null <=> ~MissingDecimal(args[c].slTriggerPrice)
      /\ \A leg \in {loc[c].tpOrder, loc[c].slOrder} \ {Null} :
           /\ leg.reduceOnly = TRUE
           /\ leg.isLong = ~loc[c].order.isLong
           /\ leg.isLong = (args[c].side # BUY)

\* C7 witness: a SELL intent that does not set reduceOnly, with a take-profit
\* and no stop-loss trigger price, has a long reduce-only take-profit leg and no
\* stop-loss leg.
C7_Witness ==
  \E c \in Calls :
    /\ LegsBuilt(c)
    /\ args[c].side = SELL
    /\ args[c].reduceOnly = Undef
    /\ args[c].slTriggerPrice = Undefined
    /\ args[c].slOrderPrice = 90
    /\ loc[c].slOrder = Null
    /\ loc[c].tpOrder # Null
    /\ loc[c].tpOrder.reduceOnly /\ loc[c].tpOrder.isLong
    /\ ~loc[c].order.reduceOnly /\ ~loc[c].order.isLong

\* The price the claim gives a companion leg with this specification.
ClaimedLegPrice(orderType, orderPrice, triggerPrice) ==
  IF orderType = LIMIT
  THEN IF MissingDecimal(orderPrice) THEN triggerPrice * WeiFactor
       ELSE orderPrice * WeiFactor
  ELSE 0

\* C8: the price of every take-profit and stop-loss leg that is built is zero
\* when the order type of the leg is MARKET or not given, and when it is LIMIT
\* the fixed-point value of the order price of the leg if one was given and of
\* the trigger price otherwise.
C8_LegPrice ==
  \A c \in Calls :
    LegsBuilt(c) =>
      /\ loc[c].tpOrder # Null =>
           loc[c].tpOrder.price =
             ClaimedLegPrice(IF args[c].tpOrderType = Undef THEN MARKET
                             ELSE args[c].tpOrderType,
                             args[c].tpOrderPrice, args[c].tpTriggerPrice)
      /\ loc[c].slOrder # Null =>
           loc[c].slOrder.price =
             ClaimedLegPrice(IF args[c].slOrderType = Undef THEN MARKET
                             ELSE args[c].slOrderType,
                             args[c].slOrderPrice, args[c].slTriggerPrice)

\* C8 witness: a LIMIT take-profit leg without an order price is priced at its
\* trigger price, beside a LIMIT stop-loss leg priced at its order price and, in
\* another call, a take-profit leg of the default type priced zero.
C8_Witness ==
  \E c \in Calls :
    /\ LegsBuilt(c)
    /\ args[c].tpOrderType = LIMIT /\ args[c].tpOrderPrice = Undefined
    /\ loc[c].tpOrder # Null /\ loc[c].tpOrder.price = 200 * WeiFactor
    /\ args[c].slOrderType = LIMIT /\ args[c].slOrderPrice = 90
    /\ loc[c].slOrder # Null /\ loc[c].slOrder.price = 90 * WeiFactor

\* C9: for every MARKET intent, with or without a price, the price of the main
\* order is zero and the price field of the request is the empty string; the
\* main order is long exactly when the side is BUY, and is not reduce-only when
\* the intent does not set reduceOnly.
C9_MarketOrder ==
  \A c \in Calls :
    LegsBuilt(c) /\ args[c].orderType = MARKET =>
      /\ loc[c].order.price = 0
      /\ loc[c].order.isLong = (args[c].side = BUY)
      /\ args[c].reduceOnly = Undef => loc[c].order.reduceOnly = FALSE
      /\ req[c] # NoRequest => req[c].body.price = ""

\* C9 witness: the request of a MARKET buy that came with a price is sent with
\* an empty price field, for a main order priced zero.
C9_Witness ==
  \E c \in Calls :
    /\ LegsBuilt(c)
    /\ args[c].orderType = MARKET /\ args[c].price = 150 /\ args[c].side = BUY
    /\ req[c] # NoRequest
    /\ req[c].body.price = ""
    /\ loc[c].order.price = 0 /\ loc[c].order.isLong

\* The take-profit fields of a form, and its stop-loss fields.
TpFields(f) == <<f.tpTriggerPrice, f.tpOrderType, f.tpOrderPrice, f.tpSalt>>
SlFields(f) == <<f.slTriggerPrice, f.slOrderType, f.slOrderPrice, f.slSalt>>

\* C10: in the form that placeOrder posts, the take-profit fields (signature,
\* trigger price, order type, order price, salt) are all present when the
\* take-profit leg was built and all absent when it was not, the same holds of
\* the stop-loss fields and the stop-loss leg, and triggerWay is "oracle"
\* whenever the take-profit leg was built.
C10_WireLegFields ==
  \A c \in Calls :
    args[c].op = "placeOrder" /\ req[c] # NoRequest =>
      LET f == req[c].body IN
      /\ IF loc[c].tpOrder # Null
         THEN /\ f.tpOrderSignature # UndefSig
              /\ \A i \in 1..4 : TpFields(f)[i] # Absent
              /\ f.triggerWay = "oracle"
         ELSE /\ f.tpOrderSignature = UndefSig
              /\ \A i \in 1..4 : TpFields(f)[i] = Absent
      /\ IF loc[c].slOrder # Null
         THEN /\ f.slOrderSignature # UndefSig
              /\ \A i \in 1..4 : SlFields(f)[i] # Absent
         ELSE /\ f.slOrderSignature = UndefSig
              /\ \A i \in 1..4 : SlFields(f)[i] = Absent

\* C10 witness: a request with a stop-loss leg and no take-profit leg carries
\* the stop-loss fields and neither the take-profit fields nor triggerWay.
C10_Witness ==
  \E c \in Calls :
    /\ args[c].op = "placeOrder" /\ req[c] # NoRequest
    /\ loc[c].tpOrder = Null /\ loc[c].slOrder # Null
    /\ req[c].body.slSalt = ToString(loc[c].slOrder.salt)
    /\ req[c].body.slOrderSignature = Signature(OrderMessage(loc[c].slOrder))
    /\ req[c].body.tpSalt = Absent
    /\ req[c].body.triggerWay = Absent

\* ---------------------------------------------------------------- C11

ListOps == {"getPositions", "getOpenOrders"}

\* The list that the data of a response carries as a bare list or inside the
\* wrapper {data: L}; the empty list when it carries none.
CarriedList(data) ==
  IF data.kind = "list" THEN data
  ELSE IF data.kind = "wrapper" /\ data.data.kind = "list" THEN data.data
  ELSE ListOf(<<>>)

\* A call of a list query that ended on a code-200 envelope.
ListQueryEnded(c) ==
  /\ pc[c] = "done" /\ args[c].op \in ListOps
  /\ HasEnvelope(c) /\ resp[c].body.code = 200

\* C11: getPositions and getOpenOrders return the list L both for a code-200
\* response whose data is the bare list L and for one whose data is the
\* wrapper {data: L}, and the payload they return is always a list, the empty
\* list when neither shape carries one.
C11_AlwaysFlatList ==
  \A c \in Calls :
    ListQueryEnded(c) =>
      /\ result[c].status
      /\ result[c].data.kind = "list"
      /\ result[c].data = CarriedList(resp[c].body.data)

\* C11, the part that holds: the bare list L and the wrapper {data: L} give
\* the same payload L, and a response without data gives the empty list.
C11_BothShapesSameList ==
  \A c \in Calls :
    ListQueryEnded(c) =>
      LET d == resp[c].body.data IN
      /\ result[c].status
      /\ d.kind = "list" => result[c].data = d
      /\ d.kind = "wrapper" /\ d.data.kind = "list" => result[c].data = d.data
      /\ d = NoData \/ d = Page => result[c].data = ListOf(<<>>)
      /\ d.kind = "wrapper" /\ d.data = NoData => result[c].data = ListOf(<<>>)

\* C11 witness of the part that holds: a wrapper around a two-element list came
\* back as that list.
C11_WrapperUnwrapped ==
  \E c \in Calls :
    /\ ListQueryEnded(c)
    /\ resp[c].body.data = [kind |-> "wrapper", data |-> ListOf(<<"a", "b">>)]
    /\ result[c] = Success(ListOf(<<"a", "b">>))

\* The failing state of C11: a wrapper whose data is an object came back as a
\* successful result whose payload is that object.
C11_ObjectReturned ==
  \E c \in Calls :
    /\ ListQueryEnded(c)
    /\ resp[c].body.data = [kind |-> "wrapper", data |-> Page]
    /\ result[c] = Success(Page)

\* ---------------------------------------------------------------- C12

\* The identifier list inside a signed cancellation message, and the one that
\* the orderHashes field of a form decodes to.
SignedHashes(signature) == signature.signed.json.orderHashes
SubmittedHashes(f) == f.orderHashes.json

\* C12: in the request of every cancelOrder call with a non-empty identifier
\* list, the identifier list inside the signed cancellation message is exactly
\* the list submitted in the orderHashes field, which is the list of the call
\* (same elements, same order), and the submitted parentAddress is the one of
\* the call when one is given and the wallet address of the SDK otherwise.
C12_CancelSignsWhatItSubmits ==
  \A c \in Calls :
    args[c].op = "cancelOrder" /\ req[c] # NoRequest =>
      LET f == req[c].body IN
      /\ f.signature # UndefSig
      /\ f.signature.signer = WalletAddress
      /\ SignedHashes(f.signature) = SubmittedHashes(f)
      /\ SubmittedHashes(f) = args[c].orderHashes
      /\ Len(SubmittedHashes(f).items) > 0
      /\ f.parentAddress = IF args[c].parentAddress # Undef
                           THEN args[c].parentAddress
                           ELSE WalletAddress

\* C12 witness: a cancellation of two identifiers on behalf of a sub-account
\* was sent with the two identifiers, in the order of the call, both signed
\* and submitted.
C12_Witness ==
  \E c \in Calls :
    /\ args[c].op = "cancelOrder" /\ req[c] # NoRequest
    /\ args[c].orderHashes = ListOf(<<"h2", "h1">>)
    /\ SignedHashes(req[c].body.signature).items = <<"h2", "h1">>
    /\ SubmittedHashes(req[c].body).items = <<"h2", "h1">>
    /\ req[c].body.parentAddress = "0xsub"

\* ---------------------------------------------------------------- C14

\* The request of the call in slot c failed at the transport layer.
TransportFailed(c) ==
  pc[c] = "done" /\ resp[c] # NoResponse /\ resp[c].failed

\* C14: no retries. Every invocation of a public operation has sent at most
\* one HTTP request, one exactly when it has a request to show, and an
\* invocation whose request failed at the transport layer has ended with one
\* failure result that carries the error of the transport, having sent that
\* one request and no other.
C14_NoRetries ==
  \A c \in Calls :
    /\ sent[c] <= 1
    /\ sent[c] = 1 <=> req[c] # NoRequest
    /\ pc[c] = "wait" => sent[c] = 1
    /\ TransportFailed(c) =>
         /\ sent[c] = 1
         /\ ReturnedFailure(c)
         /\ result[c] = Failure(ResponseError(resp[c]).message)

\* C14 witness: a placeOrder call whose request was rejected by the transport
\* has returned a failure after one request.
C14_Witness ==
  \E c \in Calls :
    /\ args[c].op = "placeOrder"
    /\ TransportFailed(c)
    /\ sent[c] = 1
    /\ ReturnedFailure(c)

\* ---------------------------------------------------------------- C16

\* The legs that a placeOrder call with the locals l built, in the order of
\* the code: main, take-profit, stop-loss.
BuiltLegs(l) ==
  <<"main">> \o (IF l.tpOrder # Null THEN <<"tp">> ELSE <<>>)
             \o (IF l.slOrder # Null THEN <<"sl">> ELSE <<>>)

IsPrefix(s, t) == Len(s) <= Len(t) /\ SubSeq(t, 1, Len(s)) = s

\* C16: in every placeOrder call that passed validation, the legs signed so
\* far are the first of the legs built, in the order main, take-profit,
\* stop-loss, each signed once; no request is sent while a signature is
\* awaited; the request, once sent, is the only one and follows the signature
\* of every leg built; and a call that ended before every leg built was signed
\* (a signature failed) sent no request and returned a failure result.
C16_SignThenSend ==
  \A c \in Calls :
    LegsBuilt(c) =>
      /\ IsPrefix(signed[c], BuiltLegs(loc[c]))
      /\ pc[c] \in {"signMain", "signTp", "signSl"} =>
           /\ sent[c] = 0 /\ req[c] = NoRequest
           /\ Len(signed[c]) < Len(BuiltLegs(loc[c]))
           /\ LegOf(pc[c]) = BuiltLegs(loc[c])[Len(signed[c]) + 1]
      /\ req[c] # NoRequest =>
           /\ signed[c] = BuiltLegs(loc[c])
           /\ sent[c] = 1
      /\ pc[c] = "done" /\ signed[c] # BuiltLegs(loc[c]) =>
           /\ sent[c] = 0 /\ req[c] = NoRequest
           /\ result[c] = Failure(SigningError.message)

\* C16 witness: a call with both companion legs has sent its request after
\* signing the main order, the take-profit leg and the stop-loss leg.
C16_Witness ==
  \E c \in Calls :
    /\ LegsBuilt(c)
    /\ pc[c] = "wait" /\ sent[c] = 1
    /\ signed[c] = <<"main", "tp", "sl">>
    /\ req[c].body.slOrderSignature = Signature(OrderMessage(loc[c].slOrder))

\* C16, the failure: the signature of the take-profit leg failed after the
\* main order was signed, and the call ended in a failure without a request.
C16_SigningFailed ==
  \E c \in Calls :
    /\ LegsBuilt(c)
    /\ pc[c] = "done" /\ signed[c] = <<"main">> /\ loc[c].tpOrder # Null
    /\ sent[c] = 0 /\ ReturnedFailure(c)

\* ---------------------------------------------------------------- C18

\* The order inside a signature.
SignedLeg(signature) == signature.signed.orderMessage

\* The salt field wireSalt, the creator field and the price field wirePrice of
\* the form f agree with the leg signed in signature, whose order type is
\* orderType and whose price comes from the input value input: the salts and
\* the creators are equal, and the wire price is "" exactly when the order type
\* is not LIMIT, where the signed price is zero, and otherwise both prices are
\* the conversions of input.
WireAgrees(f, wireSalt, wirePrice, orderType, input, signature) ==
  LET leg == SignedLeg(signature) IN
  /\ signature.signer = WalletAddress
  /\ wireSalt = ToString(leg.salt)
  /\ f.creator = leg.creator
  /\ wirePrice = "" <=> orderType # LIMIT
  /\ IF orderType = LIMIT
     THEN /\ Truthy(input)
          /\ wirePrice = formatNormalToWei(input)
          /\ leg.price = formatNormalToWeiBN(input)
     ELSE leg.price = ZeroBN

\* C18: the form of every placeOrder request agrees with the legs that were
\* signed. Every leg built is signed and its signature is in the form; salt,
\* tpSalt and slSalt are the salts inside the signed main, take-profit and
\* stop-loss legs; creator is the wallet address of the SDK and the creator
\* inside every signed leg; price, tpOrderPrice and slOrderPrice come from the
\* same input value as the price of the signed leg, and are the empty string
\* exactly when the order type of the leg is not LIMIT and the signed price zero.
C18_WireAgreesWithSigned ==
  \A c \in Calls :
    args[c].op = "placeOrder" /\ req[c] # NoRequest =>
      LET f == req[c].body
          p == args[c]
      IN
      /\ f.creator = WalletAddress
      /\ f.orderSignature # UndefSig
      /\ SignedLeg(f.orderSignature) = loc[c].order
      /\ WireAgrees(f, f.salt, f.price, p.orderType, p.price, f.orderSignature)
      /\ f.tpOrderSignature # UndefSig <=> loc[c].tpOrder # Null
      /\ f.tpOrderSignature # UndefSig =>
           /\ SignedLeg(f.tpOrderSignature) = loc[c].tpOrder
           /\ WireAgrees(f, f.tpSalt, f.tpOrderPrice, f.tpOrderType,
                         OrElse(p.tpOrderPrice, p.tpTriggerPrice), f.tpOrderSignature)
      /\ f.slOrderSignature # UndefSig <=> loc[c].slOrder # Null
      /\ f.slOrderSignature # UndefSig =>
           /\ SignedLeg(f.slOrderSignature) = loc[c].slOrder
           /\ WireAgrees(f, f.slSalt, f.slOrderPrice, f.slOrderType,
                         OrElse(p.slOrderPrice, p.slTriggerPrice), f.slOrderSignature)

\* C18 witness: a request whose take-profit leg is a LIMIT leg with a price of
\* its own, other than its trigger price, and whose stop-loss leg is a MARKET
\* leg, carries the salts of the three signed legs, the converted price of the
\* take-profit leg and an empty stop-loss price.
C18_Witness ==
  \E c \in Calls :
    /\ args[c].op = "placeOrder" /\ req[c] # NoRequest
    /\ loc[c].tpOrder # Null /\ loc[c].slOrder # Null
    /\ req[c].body.tpOrderType = LIMIT
    /\ Truthy(args[c].tpOrderPrice) /\ args[c].tpOrderPrice # args[c].tpTriggerPrice
    /\ req[c].body.tpOrderPrice = ToString(SignedLeg(req[c].body.tpOrderSignature).price)
    /\ req[c].body.tpSalt = ToString(SignedLeg(req[c].body.tpOrderSignature).salt)
    /\ req[c].body.slOrderType = MARKET
    /\ req[c].body.slOrderPrice = ""
    /\ SignedLeg(req[c].body.slOrderSignature).price = ZeroBN
    /\ req[c].body.slSalt = ToString(SignedLeg(req[c].body.slOrderSignature).salt)
    /\ req[c].body.salt = ToString(SignedLeg(req[c].body.orderSignature).salt)

\* ---------------------------------------------------------------- C13

\* The token in force after the calls of setAuthToken in log: the one set
\* last, Undef when none was set or the one set last is the empty string.
TokenInForce(log) ==
  IF log # <<>> /\ log[Len(log)] # "" THEN log[Len(log)] ELSE Undef

\* The call in slot c issues its request in this step.
Issues(c) == sent'[c] > sent[c]

\* C13: over any sequence of setAuthToken calls and requests on one
\* transport client, every request issued carries the identity header with the
\* wallet address of the caller; it carries a bearer-auth header if and only
\* if a (non-empty) token was in force when it was issued, and the token in
\* that header is the one set by the most recent setAuthToken call before the
\* request was issued; a token set later leaves the request as it was issued.
C13_HeadersAtIssue ==
  [][\A c \in Calls :
       /\ Issues(c) =>
            LET h == req'[c].headers
                token == TokenInForce(tokensSet)
            IN /\ h.wallet = WalletAddress
               /\ h.authorization # Absent <=> token # Undef
               /\ token # Undef => h.authorization = "Bearer " \o token
       /\ tokensSet' # tokensSet => req'[c] = req[c]]_vars

\* C13 witness: a request in flight carries the bearer header of the second
\* of two tokens, set after the first and before the request was issued.
C13_Witness ==
  \E c \in Calls :
    /\ pc[c] = "wait" /\ req[c] # NoRequest
    /\ tokensSet = <<"jwt1", "jwt2">>
    /\ req[c].headers.wallet = WalletAddress
    /\ req[c].headers.authorization = "Bearer jwt2"

\* C13, a request issued before any token was set: it carries the identity
\* header and no bearer header, also after a token was set behind it.
C13_NoTokenNoBearer ==
  \E c \in Calls :
    /\ pc[c] = "wait" /\ req[c] # NoRequest
    /\ tokensSet = <<"jwt1">>
    /\ req[c].headers.wallet = WalletAddress
    /\ req[c].headers.authorization = Absent

\* ---------------------------------------------------------------- C15

\* The locals l of a placeOrder call once every leg built is signed.
SignAll(l) ==
  LET l1 == WithSignature(l, "main", Signature(OrderMessage(l.order)))
      l2 == IF l.tpOrder = Null THEN l1
            ELSE WithSignature(l1, "tp", Signature(OrderMessage(l.tpOrder)))
  IN IF l.slOrder = Null THEN l2
     ELSE WithSignature(l2, "sl", Signature(OrderMessage(l.slOrder)))

\* The request that the operation of the intent p sends when it runs alone, on
\* a client without a token, and reads clock from the wall clock.
AloneRequest(p, clock) ==
  CASE p.op = "placeOrder" ->
         PostForm(PLACE_ORDER,
                  PlaceRequestParams(p, SignAll(PlaceLocals(p, clock[1], clock[2], clock[3]))),
                  Undef)
    [] p.op = "cancelOrder" ->
         PostForm(CANCEL_ORDER,
                  CancelRequestParams(p, [CancelLocals(p) EXCEPT
                                            !.signature = Signature(CancelMessage(p))]),
                  Undef)
    [] OTHER -> Get(EndpointOf(p.op), QueryParams(p), Undef)

\* The clock readings of the call in slot c (only placeOrder reads the clock).
ClockOf(c) == IF LegsBuilt(c) THEN loc[c].clock ELSE <<now, now, now>>

\* The other call is in flight too.
BothInFlight(c, d) ==
  /\ c # d
  /\ pc[c] \notin {"idle", "done"} \/ (pc[c] = "done" /\ sent[c] = 1)
  /\ pc[d] \notin {"idle", "done"}

\* C15: calls in flight on the same SDK instance are independent. In every
\* interleaving of two operations, with no setAuthToken call, the request that
\* each has sent is the request it sends when it runs alone on the same clock
\* readings, and the result that each returns is the result it returns alone
\* on the same response of the server (or, without a response, the failure of
\* its own signature).
C15_IndependentCalls ==
  \A c \in Calls :
    /\ req[c] # NoRequest => req[c] = AloneRequest(args[c], ClockOf(c))
    /\ pc[c] = "done" /\ resp[c] # NoResponse =>
         result[c] = HandleResponse(args[c].op, resp[c])
    /\ pc[c] = "done" /\ resp[c] = NoResponse =>
         /\ req[c] = NoRequest
         /\ result[c] = CatchResult(SigningError)
    /\ LegsBuilt(c) /\ pc[c] \in {"wait", "done"} /\ req[c] # NoRequest =>
         loc[c] = SignAll(PlaceLocals(args[c], loc[c].clock[1], loc[c].clock[2],
                                      loc[c].clock[3]))

\* C15, step by step: no step of the instance changes anything of two calls.
C15_OneCallPerStep ==
  [][\A c, d \in Calls :
       c # d =>
         \/ <<pc[c], args[c], loc[c], req[c], resp[c], result[c], signed[c], sent[c]>>'
              = <<pc[c], args[c], loc[c], req[c], resp[c], result[c], signed[c], sent[c]>>
         \/ <<pc[d], args[d], loc[d], req[d], resp[d], result[d], signed[d], sent[d]>>'
              = <<pc[d], args[d], loc[d], req[d], resp[d], result[d], signed[d], sent[d]>>]_vars

\* C15 witness: a placeOrder call has returned the success of its own
\* response, after its own request, while a cancelOrder call that started
\* beside it is still waiting for the response to its own, different request.
C15_Witness ==
  \E c, d \in Calls :
    /\ BothInFlight(c, d)
    /\ args[c].op = "placeOrder" /\ pc[c] = "done"
    /\ result[c].status /\ result[c].data = resp[c].body
    /\ req[c] = AloneRequest(args[c], loc[c].clock)
    /\ args[d].op = "cancelOrder" /\ pc[d] = "wait"
    /\ req[d] = AloneRequest(args[d], ClockOf(d))
    /\ req[d] # req[c]

\* ---------------------------------------------------------------- C17

\* Two placeOrder calls whose legs are built, in different slots.
TwoOrders(c, d) == c # d /\ LegsBuilt(c) /\ LegsBuilt(d)

\* C17: salts are not unique across calls. Of two placeOrder calls on the same
\* SDK instance, whether one has ended or both are in flight: when both read
\* the same millisecond for their main orders, the salts of the main orders are
\* equal; when one reads for its main order the millisecond after the reading
\* of the take-profit leg of the other, its main salt is the take-profit salt
\* of the other; and when it reads two milliseconds after the reading of the
\* stop-loss leg of the other, its main salt is the stop-loss salt of the other.
C17_SaltsCollide ==
  \A c, d \in Calls :
    TwoOrders(c, d) =>
      /\ loc[c].clock[1] = loc[d].clock[1] => loc[c].order.salt = loc[d].order.salt
      /\ loc[c].tpOrder # Null /\ loc[d].clock[1] = loc[c].clock[2] + 1 =>
           loc[d].order.salt = loc[c].tpOrder.salt
      /\ loc[c].slOrder # Null /\ loc[d].clock[1] = loc[c].clock[3] + 2 =>
           loc[d].order.salt = loc[c].slOrder.salt

\* C17 witness: two calls read the same millisecond and have both sent a
\* request whose salt field is the same.
C17_Witness ==
  \E c, d \in Calls :
    /\ TwoOrders(c, d)
    /\ loc[c].clock[1] = loc[d].clock[1]
    /\ req[c] # NoRequest /\ req[d] # NoRequest
    /\ req[c].body.salt = req[d].body.salt
    /\ SignedLeg(req[c].body.orderSignature).salt = SignedLeg(req[d].body.orderSignature).salt

\* C17, one millisecond later: a call that read the clock one millisecond
\* after every reading of a call that has ended has sent, as its main salt, the
\* take-profit salt that the other sent.
C17_TpSaltReused ==
  \E c, d \in Calls :
    /\ TwoOrders(c, d)
    /\ pc[c] = "done" /\ req[c] # NoRequest /\ req[d] # NoRequest
    /\ loc[c].clock = <<ClockEpoch, ClockEpoch, ClockEpoch>>
    /\ loc[d].clock[1] = ClockEpoch + 1
    /\ req[d].body.salt = req[c].body.tpSalt

\* C17, two milliseconds later: the same with the stop-loss salt.
C17_SlSaltReused ==
  \E c, d \in Calls :
    /\ TwoOrders(c, d)
    /\ pc[c] = "done" /\ req[c] # NoRequest /\ req[d] # NoRequest
    /\ loc[c].clock = <<ClockEpoch, ClockEpoch, ClockEpoch>>
    /\ loc[d].clock[1] = ClockEpoch + 2
    /\ req[d].body.salt = req[c].body.slSalt

====
